---------------------------- MODULE Spec2Model ----------------------------
(* Kickoff task database (TaskDatabase.cpp): the in-memory task store, its *)
(* counters, the resource-matching dequeue and the zombie reaper.          *)
EXTENDS Integers, Sequences, FiniteSets, TLC

(***************************************************************************)
(* Bounds                                                                  *)
(***************************************************************************)
\* number of distinct TaskID values the random generator can produce
NumTaskIDs == 2
\* total number of createTask calls in a behaviour
MaxCreated == 3
\* the wall clock runs from 0 to MaxTime
MaxTime == 2
\* heartbeat timeouts handed to cleanupZombieTasks are 1..MaxTimeout
MaxTimeout == 2
\* markTaskShouldCancel is not called once numCanceling reached this value
MaxCanceling == 2
\* getUnusedTaskID is followed for at most this many colliding samples
MaxSanityCount == 1002
\* command-line argument strings have at most this many characters
MaxArgLen == 3
\* task ids given to the wait command
MaxWaitIDs == 2
\* interrupts the user sends to the worker command
MaxInterrupts == 4
\* tasks created while the reaper is followed
MaxReapCreated == 2
\* serialized resource vectors have at most this many entries
MaxVectorLen == 2

TaskIDs == 1 .. NumTaskIDs
Timeouts == 1 .. MaxTimeout

\* "no task": the null TaskPtr
NullTask == 0

(***************************************************************************)
(* Inputs: schedules of created tasks and resource sets of workers         *)
(***************************************************************************)
\* number of optional tags of the long schedule "L"
LongOptionalCount == 2000

\* TaskSchedule values (requiredResources, optionalResources are vectors)
ScheduleTable ==
    [ A |-> [requiredResources |-> << >>,      optionalResources |-> <<"X", "Y">>],
      B |-> [requiredResources |-> << >>,      optionalResources |-> <<"X">>],
      G |-> [requiredResources |-> <<"GPU">>,  optionalResources |-> << >>],
      N |-> [requiredResources |-> << >>,      optionalResources |-> << >>],
      L |-> [requiredResources |-> << >>,
             optionalResources |-> [i \in 1 .. LongOptionalCount |->
                                       IF i = LongOptionalCount THEN "Y" ELSE "X"]] ]

ScheduleNames == DOMAIN ScheduleTable

\* haveResources of the workers that poll
WorkerResources == { {"X"}, {"CPU"}, {"GPU", "X"}, {"X", "Y"} }

VARIABLES
    m_allTasksByID,   \* std::map<TaskID, TaskPtr>: live tasks by id
    m_pendingTasks,   \* the pending set (handles, named by task id)
    m_stats,          \* TaskStats
    now,              \* std::time(nullptr)
    finishCalls,      \* history: number of markTaskFinished executions
    dispatched,       \* history: per live task, number of takeTaskToRun calls that returned it
    last,             \* history: the last database call, its arguments and result
    idAlloc,          \* getUnusedTaskID: the position and locals of a running call
    codec,            \* the last serialize / deserialize round trip
    sig,              \* the worker command: SIGINT disposition, handler position, exit status
    waitCmd,          \* the wait command: its task ids, loop index and outcome
    abandoned,        \* history: dispatched tasks whose worker died, and those the reaper just removed
    cli,              \* the command line front end: its arguments and how it ended
    scan              \* history: the order in which the last takeTaskToRun scanned the pending set

dbVars == <<m_allTasksByID, m_pendingTasks, m_stats, now, finishCalls, dispatched, last>>
auxVars == <<idAlloc, codec, sig, waitCmd, abandoned, cli, scan>>
vars == <<m_allTasksByID, m_pendingTasks, m_stats, now, finishCalls, dispatched, last,
          idAlloc, codec, sig, waitCmd, abandoned, cli, scan>>

(***************************************************************************)
(* Task                                                                    *)
(***************************************************************************)
\* Optional<TaskRunStatus>: << >> is Nothing, <<rs>> holds a value
Nothing == << >>
hasValue(opt) == Len(opt) > 0

\* Task::Task
NewTask(id, schedule, time) ==
    [ id |-> id, schedule |-> schedule,
      status |-> [createTime |-> time, runStatus |-> Nothing] ]

\* markStarted that forgets to store the run status
markStarted_notStored(task, time1, time2) == task

\* Task::markStarted; the clock is read once for startTime and once for heartbeatTime
markStarted(task, time1, time2) ==
    IF ~hasValue(task.status.runStatus)
    THEN [task EXCEPT !.status.runStatus =
              << [startTime |-> time1, heartbeatTime |-> time2, wasCanceled |-> FALSE] >>]
    ELSE task

\* markShouldCancel that reports success without setting the flag
markShouldCancel_flagNotSet(task) ==
    IF hasValue(task.status.runStatus)
    THEN [task |-> task, ret |-> TRUE]
    ELSE [task |-> task, ret |-> FALSE]

\* markShouldCancel that flips the flag instead of setting it
markShouldCancel_toggle(task) ==
    IF hasValue(task.status.runStatus)
    THEN [task |-> [task EXCEPT !.status.runStatus[1].wasCanceled = ~@], ret |-> TRUE]
    ELSE [task |-> task, ret |-> FALSE]

\* Task::markShouldCancel: the task afterwards and the returned flag
markShouldCancel(task) ==
    IF hasValue(task.status.runStatus)
    THEN [task |-> [task EXCEPT !.status.runStatus[1].wasCanceled = TRUE], ret |-> TRUE]
    ELSE [task |-> task, ret |-> FALSE]

\* heartbeat that rebuilds the run status and so drops the cancel flag
heartbeat_dropsCancel(task, time) ==
    IF hasValue(task.status.runStatus)
    THEN [task EXCEPT !.status.runStatus =
              << [startTime |-> @[1].startTime, heartbeatTime |-> time, wasCanceled |-> FALSE] >>]
    ELSE task

\* heartbeat that writes the start time instead of the heartbeat time
heartbeat_wrongField(task, time) ==
    IF hasValue(task.status.runStatus)
    THEN [task EXCEPT !.status.runStatus[1].startTime = time]
    ELSE task

\* heartbeat that leaves a task marked for cancellation alone
heartbeat_skipsCanceling(task, time) ==
    IF hasValue(task.status.runStatus) /\ ~task.status.runStatus[1].wasCanceled
    THEN [task EXCEPT !.status.runStatus[1].heartbeatTime = time]
    ELSE task

\* Task::heartbeat
heartbeat(task, time) ==
    IF hasValue(task.status.runStatus)
    THEN [task EXCEPT !.status.runStatus[1].heartbeatTime = time]
    ELSE task

\* TaskStatus::getState
getState(status) ==
    IF hasValue(status.runStatus)
    THEN (IF status.runStatus[1].wasCanceled THEN "Canceling" ELSE "Running")
    ELSE "Pending"

(***************************************************************************)
(* TaskDatabase: the operations as functions of the database value         *)
(***************************************************************************)
\* the database as one value
DB == [all |-> m_allTasksByID, pending |-> m_pendingTasks, stats |-> m_stats]

\* TaskStats::TaskStats
NewStats == [numPending |-> 0, numRunning |-> 0, numCanceling |-> 0, numFinished |-> 0]

\* TaskDatabase::getTaskByID
getTaskByID(db, id) == IF id \in DOMAIN db.all THEN id ELSE NullTask

\* enum class TaskState
TaskStates == {"Pending", "Running", "Canceling"}

\* getTasksByStates that forgets the state filter
getTasksByStates_noFilter(db, states) ==
    LET RECURSIVE loop(_, _)
        loop(rest, results) ==
            IF rest = {} THEN results
            ELSE LET id == CHOOSE x \in rest : \A y \in rest : x <= y
                 IN loop(rest \ {id}, Append(results, id))
    IN loop(DOMAIN db.all, << >>)

\* TaskDatabase::getTasksByStates: the handles collected over the map in key order
getTasksByStates(db, states) ==
    LET RECURSIVE loop(_, _)
        loop(rest, results) ==
            IF rest = {} THEN results
            ELSE LET id == CHOOSE x \in rest : \A y \in rest : x <= y
                 IN loop(rest \ {id},
                         IF getState(db.all[id].status) \in states
                         THEN Append(results, id)
                         ELSE results)
    IN loop(DOMAIN db.all, << >>)

\* TaskDatabase::getTotalTaskCount
getTotalTaskCount(db) == Cardinality(DOMAIN db.all)

\* std::map erase / insert on functions
MapErase(f, k) == [x \in DOMAIN f \ {k} |-> f[x]]
MapPut(f, k, v) == [x \in DOMAIN f \cup {k} |-> IF x = k THEN v ELSE f[x]]

\* TaskDatabase::createTask, with the id getUnusedTaskID returned
createTask(db, id, schedule, time) ==
    [ all     |-> MapPut(db.all, id, NewTask(id, schedule, time)),
      pending |-> db.pending \cup {id},
      stats   |-> [db.stats EXCEPT !.numPending = @ + 1] ]

\* the required-resources loop of takeTaskToRun
matchReq(schedule, haveResources) ==
    \A i \in 1 .. Len(schedule.requiredResources) :
        schedule.requiredResources[i] \in haveResources

\* the optional-resources loop of takeTaskToRun
matchCount(schedule, haveResources) ==
    Cardinality({ i \in 1 .. Len(schedule.optionalResources) :
                    schedule.optionalResources[i] \in haveResources })

\* the float score as the fraction <<numerator, denominator>>
score(schedule, haveResources) ==
    IF Len(schedule.optionalResources) > 0
    THEN << matchCount(schedule, haveResources), Len(schedule.optionalResources) >>
    ELSE << 0, 1 >>

\* scores of the schedules in use, computed once
ScoreTable ==
    [ s \in ScheduleNames |-> [ r \in WorkerResources |-> score(ScheduleTable[s], r) ] ]
MatchReqTable ==
    [ s \in ScheduleNames |-> [ r \in WorkerResources |-> matchReq(ScheduleTable[s], r) ] ]

\* comparisons of float scores: a > b, and a >= 0.999f
ScoreGreater(a, b) == a[1] * b[2] > b[1] * a[2]
ScoreAtLeastThreshold(a) == a[1] * 1000 >= 999 * a[2]

\* the scan of takeTaskToRun over the pending set in its iteration order:
\* the task left in readyTask
RECURSIVE scanPending(_, _, _, _, _, _)
scanPending(db, order, i, haveResources, readyTask, bestScore) ==
    IF i > Len(order) THEN readyTask
    ELSE LET task == db.all[order[i]]
         IN IF MatchReqTable[task.schedule][haveResources]
            THEN LET sc == ScoreTable[task.schedule][haveResources]
                 IN IF ScoreGreater(sc, bestScore)
                    THEN IF ScoreAtLeastThreshold(sc)
                         THEN order[i]
                         ELSE scanPending(db, order, i + 1, haveResources, order[i], sc)
                    ELSE scanPending(db, order, i + 1, haveResources, readyTask, bestScore)
            ELSE scanPending(db, order, i + 1, haveResources, readyTask, bestScore)

\* takeTaskToRun that leaves the dispatched task in the pending set
takeTaskToRun_notErased(db, order, haveResources, time1, time2) ==
    LET readyTask == scanPending(db, order, 1, haveResources, NullTask, << -1, 1 >>)
    IN IF readyTask # NullTask
       THEN [ db |-> [ all     |-> [db.all EXCEPT ![readyTask] = markStarted(@, time1, time2)],
                       pending |-> db.pending,
                       stats   |-> [db.stats EXCEPT !.numPending = @ - 1,
                                                    !.numRunning = @ + 1] ],
              ret |-> readyTask ]
       ELSE [ db |-> db, ret |-> NullTask ]

\* takeTaskToRun whose best score starts at 0, so that a score of 0 never wins
takeTaskToRun_bestStartsAtZero(db, order, haveResources, time1, time2) ==
    LET readyTask == scanPending(db, order, 1, haveResources, NullTask, << 0, 1 >>)
    IN IF readyTask # NullTask
       THEN [ db |-> [ all     |-> [db.all EXCEPT ![readyTask] = markStarted(@, time1, time2)],
                       pending |-> db.pending \ {readyTask},
                       stats   |-> [db.stats EXCEPT !.numPending = @ - 1,
                                                    !.numRunning = @ + 1] ],
              ret |-> readyTask ]
       ELSE [ db |-> db, ret |-> NullTask ]

\* TaskDatabase::takeTaskToRun: the database afterwards and the returned task
takeTaskToRun(db, order, haveResources, time1, time2) ==
    LET readyTask == scanPending(db, order, 1, haveResources, NullTask, << -1, 1 >>)
    IN IF readyTask # NullTask
       THEN [ db |-> [ all     |-> [db.all EXCEPT ![readyTask] = markStarted(@, time1, time2)],
                       pending |-> db.pending \ {readyTask},
                       stats   |-> [db.stats EXCEPT !.numPending = @ - 1,
                                                    !.numRunning = @ + 1] ],
              ret |-> readyTask ]
       ELSE [ db |-> db, ret |-> NullTask ]

\* TaskDatabase::heartbeatTask
heartbeatTask(db, task, time) ==
    [db EXCEPT !.all[task] = heartbeat(@, time)]

\* markTaskFinished that does not count the finished task
markTaskFinished_notCounted(db, task) ==
    LET status == db.all[task].status
        stats1 == IF hasValue(status.runStatus)
                  THEN IF status.runStatus[1].wasCanceled
                       THEN [db.stats EXCEPT !.numCanceling = @ - 1]
                       ELSE [db.stats EXCEPT !.numRunning = @ - 1]
                  ELSE [db.stats EXCEPT !.numPending = @ - 1]
    IN [ all     |-> MapErase(db.all, task),
         pending |-> db.pending \ {task},
         stats   |-> stats1 ]

\* markTaskFinished that leaves the task in the pending set
markTaskFinished_pendingNotErased(db, task) ==
    LET status == db.all[task].status
        stats1 == IF hasValue(status.runStatus)
                  THEN IF status.runStatus[1].wasCanceled
                       THEN [db.stats EXCEPT !.numCanceling = @ - 1]
                       ELSE [db.stats EXCEPT !.numRunning = @ - 1]
                  ELSE [db.stats EXCEPT !.numPending = @ - 1]
    IN [ all     |-> MapErase(db.all, task),
         pending |-> db.pending,
         stats   |-> [stats1 EXCEPT !.numFinished = @ + 1] ]

\* markTaskFinished that takes every dispatched task for a Running one
markTaskFinished_ignoresCanceled(db, task) ==
    LET status == db.all[task].status
        stats1 == IF hasValue(status.runStatus)
                  THEN [db.stats EXCEPT !.numRunning = @ - 1]
                  ELSE [db.stats EXCEPT !.numPending = @ - 1]
    IN [ all     |-> MapErase(db.all, task),
         pending |-> db.pending \ {task},
         stats   |-> [stats1 EXCEPT !.numFinished = @ + 1] ]

\* TaskDatabase::markTaskFinished
markTaskFinished(db, task) ==
    LET status == db.all[task].status
        stats1 == IF hasValue(status.runStatus)
                  THEN IF status.runStatus[1].wasCanceled
                       THEN [db.stats EXCEPT !.numCanceling = @ - 1]
                       ELSE [db.stats EXCEPT !.numRunning = @ - 1]
                  ELSE [db.stats EXCEPT !.numPending = @ - 1]
    IN [ all     |-> MapErase(db.all, task),
         pending |-> db.pending \ {task},
         stats   |-> [stats1 EXCEPT !.numFinished = @ + 1] ]

\* TaskDatabase::markTaskShouldCancel
markTaskShouldCancel(db, task) ==
    LET r == markShouldCancel(db.all[task])
    IN IF r.ret
       THEN [ all     |-> [db.all EXCEPT ![task] = r.task],
              pending |-> db.pending,
              stats   |-> [db.stats EXCEPT !.numRunning = @ - 1, !.numCanceling = @ + 1] ]
       ELSE markTaskFinished(db, task)

\* the test of cleanupIfZombieTask with the operands of the difference swapped
died_operandsSwapped(task, heartbeatTimeoutSeconds, time) ==
    /\ hasValue(task.status.runStatus)
    /\ task.status.runStatus[1].heartbeatTime - time >= heartbeatTimeoutSeconds

\* the test of cleanupIfZombieTask that measures from the dispatch
died_sinceStart(task, heartbeatTimeoutSeconds, time) ==
    /\ hasValue(task.status.runStatus)
    /\ time - task.status.runStatus[1].startTime >= heartbeatTimeoutSeconds

\* the test of TaskDatabase::cleanupIfZombieTask
died(task, heartbeatTimeoutSeconds, time) ==
    /\ hasValue(task.status.runStatus)
    /\ time - task.status.runStatus[1].heartbeatTime >= heartbeatTimeoutSeconds

\* TaskDatabase::cleanupIfZombieTask
cleanupIfZombieTask(db, task, heartbeatTimeoutSeconds, time) ==
    IF died(db.all[task], heartbeatTimeoutSeconds, time)
    THEN markTaskFinished(db, task)
    ELSE db

\* the elements of a sequence
Range(seq) == { seq[i] : i \in 1 .. Len(seq) }

\* the smallest element of a non-empty set of ids
Min(S) == CHOOSE x \in S : \A y \in S : x <= y

\* the body of the loop of cleanupZombieTasks run on the tasks of `visit`, in key order
RECURSIVE cleanupLoop(_, _, _, _)
cleanupLoop(db, visit, heartbeatTimeoutSeconds, time) ==
    IF visit = {} THEN db
    ELSE cleanupLoop(cleanupIfZombieTask(db, Min(visit), heartbeatTimeoutSeconds, time),
                     visit \ {Min(visit)}, heartbeatTimeoutSeconds, time)

\* The tasks the range-for of cleanupZombieTasks can reach.  markTaskFinished
\* erases the map node the loop's iterator stands on, so incrementing that
\* iterator is undefined: up to and including the first erased task the loop
\* visits the map in key order; after that it may continue with the true
\* successor, skip entries (the erased node's stale child pointer bypasses a
\* relinked successor) or stop (the process aborts).
ReachableVisits(db, heartbeatTimeoutSeconds, time) ==
    LET ids     == DOMAIN db.all
        zombies == { t \in ids : died(db.all[t], heartbeatTimeoutSeconds, time) }
    IN IF zombies = {}
       THEN { ids }
       ELSE { v \in SUBSET ids : { t \in ids : t <= Min(zombies) } \subseteq v }

\* TaskDatabase::cleanupZombieTasks with the entries its loop reached
cleanupZombieTasks(db, visit, heartbeatTimeoutSeconds, time) ==
    cleanupLoop(db, visit, heartbeatTimeoutSeconds, time)

(***************************************************************************)
(* State machine                                                           *)
(***************************************************************************)
NoCall == [op |-> "none", task |-> NullTask, have |-> {}, timeout |-> 0, ret |-> NullTask,
           states |-> {}, reply |-> Nothing]

\* no getUnusedTaskID call is running
IdleAlloc == [pc |-> "idle", randID |-> NullTask, sanityCount |-> 0, warnings |-> 0,
              schedule |-> "N"]
\* nothing has been serialized yet
IdleCodec == [kind |-> "none"]
\* the worker command has not been started: no handler installed, no worker
\* registered, no interrupt generated
IdleSig == [pc |-> "off", semantics |-> "none", disposition |-> "dfl", gWorker |-> FALSE,
            frames |-> << >>, pending |-> FALSE, interrupts |-> 0, ignored |-> 0,
            shutdownCalls |-> 0, executing |-> FALSE, exit |-> "none"]
\* the wait command has not been started
IdleWait == [pc |-> "off", taskIDs |-> << >>, i |-> 0, observed |-> << >>, recreated |-> {}]

\* no command has been run
IdleCli == [pc |-> "off"]
\* every dispatched task has a worker
NoWorkerDied == [dead |-> {}, reaped |-> {}]

Init ==
    /\ m_allTasksByID = << >>
    /\ m_pendingTasks = {}
    /\ m_stats = NewStats
    /\ now = 0
    /\ finishCalls = 0
    /\ dispatched = << >>
    /\ last = NoCall
    /\ idAlloc = IdleAlloc
    /\ codec = IdleCodec
    /\ sig = IdleSig
    /\ waitCmd = IdleWait
    /\ abandoned = NoWorkerDied
    /\ cli = IdleCli
    /\ scan = << >>

SetDB(db) ==
    /\ m_allTasksByID' = db.all
    /\ m_pendingTasks' = db.pending
    /\ m_stats' = db.stats

\* sequences that enumerate the set S once each: the iteration orders of a set
Orders(S) ==
    { o \in [1 .. Cardinality(S) -> S] : \A i, j \in 1 .. Cardinality(S) : o[i] = o[j] => i = j }

\* the wall clock advances
Tick ==
    /\ now < MaxTime
    /\ now' = now + 1
    /\ last' = [NoCall EXCEPT !.op = "tick"]
    /\ UNCHANGED <<m_allTasksByID, m_pendingTasks, m_stats, finishCalls, dispatched>>

\* a client creates a task; getUnusedTaskID returns an id no live task has
CreateTask(id, schedule) ==
    /\ finishCalls + Cardinality(DOMAIN m_allTasksByID) < MaxCreated
    /\ getTaskByID(DB, id) = NullTask
    /\ SetDB(createTask(DB, id, schedule, now))
    /\ dispatched' = MapPut(dispatched, id, 0)
    /\ last' = [NoCall EXCEPT !.op = "createTask", !.ret = id]
    /\ UNCHANGED <<now, finishCalls>>

\* a worker polls for work; the clock may advance between the two reads of markStarted
TakeTaskToRun(haveResources, order, dt) ==
    /\ now + dt <= MaxTime
    /\ LET r == takeTaskToRun(DB, order, haveResources, now, now + dt)
       IN /\ SetDB(r.db)
          /\ dispatched' = IF r.ret # NullTask
                           THEN [dispatched EXCEPT ![r.ret] = @ + 1]
                           ELSE dispatched
          /\ now' = IF r.ret # NullTask THEN now + dt ELSE now
          /\ last' = [NoCall EXCEPT !.op = "takeTaskToRun", !.have = haveResources, !.ret = r.ret]
    /\ UNCHANGED finishCalls

\* a worker heartbeats a live task
HeartbeatTask(task) ==
    /\ getTaskByID(DB, task) # NullTask
    /\ SetDB(heartbeatTask(DB, task, now))
    /\ last' = [NoCall EXCEPT !.op = "heartbeatTask", !.task = task]
    /\ UNCHANGED <<now, finishCalls, dispatched>>

\* a worker reports a live task finished
MarkTaskFinished(task) ==
    /\ getTaskByID(DB, task) # NullTask
    /\ SetDB(markTaskFinished(DB, task))
    /\ finishCalls' = finishCalls + 1
    /\ dispatched' = MapErase(dispatched, task)
    /\ last' = [NoCall EXCEPT !.op = "markTaskFinished", !.task = task]
    /\ UNCHANGED now

\* a client cancels a live task
MarkTaskShouldCancel(task) ==
    /\ getTaskByID(DB, task) # NullTask
    /\ m_stats.numCanceling < MaxCanceling
    /\ SetDB(markTaskShouldCancel(DB, task))
    /\ finishCalls' = IF hasValue(m_allTasksByID[task].status.runStatus)
                      THEN finishCalls ELSE finishCalls + 1
    /\ dispatched' = IF hasValue(m_allTasksByID[task].status.runStatus)
                     THEN dispatched ELSE MapErase(dispatched, task)
    /\ last' = [NoCall EXCEPT !.op = "markTaskShouldCancel", !.task = task]
    /\ UNCHANGED now

\* the server's timer runs the reaper
CleanupZombieTasks(heartbeatTimeoutSeconds, visit) ==
    /\ visit \in ReachableVisits(DB, heartbeatTimeoutSeconds, now)
    /\ LET db == cleanupZombieTasks(DB, visit, heartbeatTimeoutSeconds, now)
       IN /\ SetDB(db)
          /\ finishCalls' = finishCalls
                            + Cardinality({ t \in visit :
                                  died(m_allTasksByID[t], heartbeatTimeoutSeconds, now) })
          /\ dispatched' = [t \in DOMAIN db.all |-> dispatched[t]]
    /\ last' = [NoCall EXCEPT !.op = "cleanupZombieTasks", !.timeout = heartbeatTimeoutSeconds]
    /\ UNCHANGED now

\* sanityCount values of getUnusedTaskID beyond which it warns and gives up
WarnAfter == 10
GiveUpAfter == 1000

\* the loop test of getUnusedTaskID that takes every sample as unused
isUnusedTaskID_notChecked(db, randID) == TRUE

\* the loop test of getUnusedTaskID: no live task has the sampled id
isUnusedTaskID(db, randID) == getTaskByID(db, randID) = NullTask

\* one pass through the loop body of getUnusedTaskID with the next sample
getUnusedTaskID_body(a, sample) ==
    LET count == a.sanityCount + 1
    IN [a EXCEPT !.randID = sample,
                 !.sanityCount = count,
                 !.warnings = IF count > WarnAfter THEN @ + 1 ELSE @,
                 !.pc = IF count > WarnAfter THEN "loop"
                        ELSE IF count > GiveUpAfter THEN "failed"
                        ELSE "loop"]

\* createTask is called and getUnusedTaskID draws its first sample
AllocStart(schedule, sample) ==
    /\ idAlloc.pc = "idle"
    /\ finishCalls + Cardinality(DOMAIN m_allTasksByID) < MaxCreated
    /\ idAlloc' = [pc |-> "loop", randID |-> sample, sanityCount |-> 0, warnings |-> 0,
                   schedule |-> schedule]
    /\ last' = [NoCall EXCEPT !.op = "getUnusedTaskID"]
    /\ UNCHANGED <<m_allTasksByID, m_pendingTasks, m_stats, now, finishCalls, dispatched>>
    /\ UNCHANGED <<codec, sig, waitCmd, abandoned, cli, scan>>

\* the sampled id is in use: the loop body draws the next sample
AllocCollide(sample) ==
    /\ idAlloc.pc = "loop"
    /\ ~isUnusedTaskID(DB, idAlloc.randID)
    /\ idAlloc.sanityCount < MaxSanityCount
    /\ idAlloc' = getUnusedTaskID_body(idAlloc, sample)
    /\ last' = [NoCall EXCEPT !.op = "getUnusedTaskID"]
    /\ UNCHANGED <<m_allTasksByID, m_pendingTasks, m_stats, now, finishCalls, dispatched>>
    /\ UNCHANGED <<codec, sig, waitCmd, abandoned, cli, scan>>

\* the loop of getUnusedTaskID ends and createTask stores the task under the id
AllocReturn ==
    /\ idAlloc.pc = "loop"
    /\ isUnusedTaskID(DB, idAlloc.randID)
    /\ SetDB(createTask(DB, idAlloc.randID, idAlloc.schedule, now))
    /\ dispatched' = MapPut(dispatched, idAlloc.randID, 0)
    /\ last' = [NoCall EXCEPT !.op = "createTask", !.ret = idAlloc.randID]
    /\ idAlloc' = IdleAlloc
    /\ UNCHANGED <<now, finishCalls>>
    /\ UNCHANGED <<codec, sig, waitCmd, abandoned, cli, scan>>

\* the largest task count the server's GetTasksByStates handler still lists
ListThreshold == 1

\* the server's GetTasksByStates handler: Nothing (count exceeded) or the list
handleGetTasksByStates(db, states) ==
    IF getTotalTaskCount(db) > ListThreshold
    THEN Nothing
    ELSE << getTasksByStates(db, states) >>

\* a client asks for the tasks in the given states (the list command)
GetTasksByStates(states) ==
    /\ last' = [NoCall EXCEPT !.op = "getTasksByStates", !.states = states,
                              !.reply = handleGetTasksByStates(DB, states)]
    /\ UNCHANGED <<m_allTasksByID, m_pendingTasks, m_stats, now, finishCalls, dispatched>>

(***************************************************************************)
(* Serialization.  A blob is a sequence of bytes; a read yields [ok, value, *)
(* rest].  Strings are sequences of bytes.                                 *)
(***************************************************************************)
\* n as `width` little-endian bytes
RECURSIVE LittleEndian(_, _)
LittleEndian(n, width) ==
    IF width = 0 THEN << >> ELSE <<n % 256>> \o LittleEndian(n \div 256, width - 1)

\* the number held by little-endian bytes
RECURSIVE FromLittleEndian(_)
FromLittleEndian(bytes) ==
    IF bytes = << >> THEN 0 ELSE bytes[1] + 256 * FromLittleEndian(Tail(bytes))

ReadFailed(bytes) == [ok |-> FALSE, value |-> 0, rest |-> bytes]
Drop(bytes, n) == SubSeq(bytes, n + 1, Len(bytes))

\* BlobStreamWriter << and BlobStreamReader >> for an integer of `width` bytes;
\* size_t and std::time_t have 8
writeInt(n, width) == LittleEndian(n, width)
readInt(bytes, width) ==
    IF Len(bytes) < width THEN ReadFailed(bytes)
    ELSE [ok |-> TRUE, value |-> FromLittleEndian(SubSeq(bytes, 1, width)),
          rest |-> Drop(bytes, width)]

\* bool is one byte, 0 or 1
writeBool(b) == << IF b THEN 1 ELSE 0 >>
readBool(bytes) ==
    IF Len(bytes) < 1 THEN ReadFailed(bytes)
    ELSE [ok |-> TRUE, value |-> (bytes[1] # 0), rest |-> Tail(bytes)]

\* a string is a uint32 length followed by that many bytes
writeString(str) == writeInt(Len(str), 4) \o str
readString(bytes) ==
    LET n == readInt(bytes, 4)
    IN IF ~n.ok \/ Len(n.rest) < n.value THEN ReadFailed(bytes)
       ELSE [ok |-> TRUE, value |-> SubSeq(n.rest, 1, n.value), rest |-> Drop(n.rest, n.value)]

\* the loops of TaskSchedule::serialize / deserialize over one resource vector
RECURSIVE writeStrings(_)
writeStrings(strs) ==
    IF strs = << >> THEN << >> ELSE writeString(Head(strs)) \o writeStrings(Tail(strs))

RECURSIVE readStrings(_, _, _)
readStrings(bytes, count, acc) ==
    IF count = 0 THEN [ok |-> TRUE, value |-> acc, rest |-> bytes]
    ELSE LET r == readString(bytes)
         IN IF ~r.ok THEN ReadFailed(bytes)
            ELSE readStrings(r.rest, count - 1, Append(acc, r.value))

\* TaskSchedule::serialize
TaskSchedule_serialize(schedule) ==
    writeInt(Len(schedule.requiredResources), 8) \o writeStrings(schedule.requiredResources)
    \o writeInt(Len(schedule.optionalResources), 8) \o writeStrings(schedule.optionalResources)

\* TaskSchedule::deserialize
TaskSchedule_deserialize(bytes) ==
    LET count1 == readInt(bytes, 8)
    IN IF ~count1.ok THEN ReadFailed(bytes)
       ELSE LET req == readStrings(count1.rest, count1.value, << >>)
            IN IF ~req.ok THEN ReadFailed(bytes)
               ELSE LET count2 == readInt(req.rest, 8)
                    IN IF ~count2.ok THEN ReadFailed(bytes)
                       ELSE LET opt == readStrings(count2.rest, count2.value, << >>)
                            IN IF ~opt.ok THEN ReadFailed(bytes)
                               ELSE [ok |-> TRUE,
                                     value |-> [requiredResources |-> req.value,
                                                optionalResources |-> opt.value],
                                     rest |-> opt.rest]

\* TaskCreateInfo::serialize
TaskCreateInfo_serialize(info) ==
    writeString(info.command) \o TaskSchedule_serialize(info.schedule)

\* TaskCreateInfo::deserialize that does not test the read of the schedule
TaskCreateInfo_deserialize_scheduleUnchecked(bytes) ==
    LET command == readString(bytes)
    IN IF ~command.ok THEN ReadFailed(bytes)
       ELSE LET schedule == TaskSchedule_deserialize(command.rest)
            IN [ok |-> TRUE,
                value |-> [command |-> command.value, schedule |-> schedule.value],
                rest |-> schedule.rest]

\* TaskCreateInfo::deserialize
TaskCreateInfo_deserialize(bytes) ==
    LET command == readString(bytes)
    IN IF ~command.ok THEN ReadFailed(bytes)
       ELSE LET schedule == TaskSchedule_deserialize(command.rest)
            IN IF ~schedule.ok THEN ReadFailed(bytes)
               ELSE [ok |-> TRUE,
                     value |-> [command |-> command.value, schedule |-> schedule.value],
                     rest |-> schedule.rest]

\* TaskRunStatus::serialize
TaskRunStatus_serialize(runStatus) ==
    writeBool(runStatus.wasCanceled) \o writeInt(runStatus.startTime, 8)
    \o writeInt(runStatus.heartbeatTime, 8)

\* TaskRunStatus::deserialize that reads the two times in the wrong order
TaskRunStatus_deserialize_swapped(bytes) ==
    LET wasCanceled == readBool(bytes)
    IN IF ~wasCanceled.ok THEN ReadFailed(bytes)
       ELSE LET heartbeatTime == readInt(wasCanceled.rest, 8)
            IN IF ~heartbeatTime.ok THEN ReadFailed(bytes)
               ELSE LET startTime == readInt(heartbeatTime.rest, 8)
                    IN IF ~startTime.ok THEN ReadFailed(bytes)
                       ELSE [ok |-> TRUE,
                             value |-> [startTime |-> startTime.value,
                                        heartbeatTime |-> heartbeatTime.value,
                                        wasCanceled |-> wasCanceled.value],
                             rest |-> startTime.rest]

\* TaskRunStatus::deserialize
TaskRunStatus_deserialize(bytes) ==
    LET wasCanceled == readBool(bytes)
    IN IF ~wasCanceled.ok THEN ReadFailed(bytes)
       ELSE LET startTime == readInt(wasCanceled.rest, 8)
            IN IF ~startTime.ok THEN ReadFailed(bytes)
               ELSE LET heartbeatTime == readInt(startTime.rest, 8)
                    IN IF ~heartbeatTime.ok THEN ReadFailed(bytes)
                       ELSE [ok |-> TRUE,
                             value |-> [startTime |-> startTime.value,
                                        heartbeatTime |-> heartbeatTime.value,
                                        wasCanceled |-> wasCanceled.value],
                             rest |-> heartbeatTime.rest]

\* TaskStatus::serialize
TaskStatus_serialize(status) ==
    writeInt(status.createTime, 8)
    \o (IF hasValue(status.runStatus)
        THEN writeBool(TRUE) \o TaskRunStatus_serialize(status.runStatus[1])
        ELSE writeBool(FALSE))

\* TaskStatus::deserialize
TaskStatus_deserialize(bytes) ==
    LET createTime == readInt(bytes, 8)
    IN IF ~createTime.ok THEN ReadFailed(bytes)
       ELSE LET hasRunStatus == readBool(createTime.rest)
            IN IF ~hasRunStatus.ok THEN ReadFailed(bytes)
               ELSE IF hasRunStatus.value
                    THEN LET runStatusVal == TaskRunStatus_deserialize(hasRunStatus.rest)
                         IN IF ~runStatusVal.ok THEN ReadFailed(bytes)
                            ELSE [ok |-> TRUE,
                                  value |-> [createTime |-> createTime.value,
                                             runStatus |-> << runStatusVal.value >>],
                                  rest |-> runStatusVal.rest]
                    ELSE [ok |-> TRUE,
                          value |-> [createTime |-> createTime.value, runStatus |-> Nothing],
                          rest |-> hasRunStatus.rest]

\* the values that are serialized: strings "", "X", "GPU", times of one to
\* three bytes, vectors of up to MaxVectorLen strings
CodecStrings == { << >>, <<88>>, <<71, 80, 85>> }
CodecTimes == { 0, 300, 70000 }
CodecVectors == UNION { [1 .. n -> CodecStrings] : n \in 0 .. MaxVectorLen }
CodecSchedules == [requiredResources : CodecVectors, optionalResources : CodecVectors]
CodecRunStatuses == [startTime : CodecTimes, heartbeatTime : CodecTimes, wasCanceled : BOOLEAN]
CodecStatuses ==
    { [createTime |-> c, runStatus |-> Nothing] : c \in CodecTimes }
    \cup { [createTime |-> c, runStatus |-> <<rs>>] : c \in CodecTimes, rs \in CodecRunStatuses }
CodecCreateInfos == [command : CodecStrings, schedule : CodecSchedules]
\* what follows the encoded value in the stream
CodecTails == { << >>, <<1>> }

\* a schedule, a status or a create-info is written and read back
RoundTripSchedule(schedule, tail) ==
    /\ codec' = [kind |-> "TaskSchedule", value |-> schedule, tail |-> tail,
                 bytes |-> TaskSchedule_serialize(schedule),
                 result |-> TaskSchedule_deserialize(TaskSchedule_serialize(schedule) \o tail)]
    /\ UNCHANGED <<dbVars, idAlloc, sig, waitCmd, abandoned, cli, scan>>

RoundTripStatus(status, tail) ==
    /\ codec' = [kind |-> "TaskStatus", value |-> status, tail |-> tail,
                 bytes |-> TaskStatus_serialize(status),
                 result |-> TaskStatus_deserialize(TaskStatus_serialize(status) \o tail)]
    /\ UNCHANGED <<dbVars, idAlloc, sig, waitCmd, abandoned, cli, scan>>

RoundTripCreateInfo(info, tail) ==
    /\ codec' = [kind |-> "TaskCreateInfo", value |-> info, tail |-> tail,
                 bytes |-> TaskCreateInfo_serialize(info),
                 result |-> TaskCreateInfo_deserialize(TaskCreateInfo_serialize(info) \o tail)]
    /\ UNCHANGED <<dbVars, idAlloc, sig, waitCmd, abandoned, cli, scan>>

\* one value is written and read back
NextCodec ==
    /\ codec = IdleCodec
    /\ \/ \E schedule \in CodecSchedules, tail \in CodecTails : RoundTripSchedule(schedule, tail)
       \/ \E status \in CodecStatuses, tail \in CodecTails : RoundTripStatus(status, tail)
       \/ \E info \in CodecCreateInfos, tail \in CodecTails : RoundTripCreateInfo(info, tail)

SpecCodec == Init /\ [][NextCodec]_vars

\* the strict prefixes of a blob
Prefixes(bytes) == { SubSeq(bytes, 1, n) : n \in 0 .. Len(bytes) - 1 }

\* a request arrives cut short: a strict prefix of an encoding is read
TruncatedSchedule(schedule, bytes) ==
    /\ codec' = [kind |-> "truncated TaskSchedule", value |-> schedule, tail |-> << >>,
                 bytes |-> bytes, result |-> TaskSchedule_deserialize(bytes)]
    /\ UNCHANGED <<dbVars, idAlloc, sig, waitCmd, abandoned, cli, scan>>

TruncatedStatus(status, bytes) ==
    /\ codec' = [kind |-> "truncated TaskStatus", value |-> status, tail |-> << >>,
                 bytes |-> bytes, result |-> TaskStatus_deserialize(bytes)]
    /\ UNCHANGED <<dbVars, idAlloc, sig, waitCmd, abandoned, cli, scan>>

TruncatedCreateInfo(info, bytes) ==
    /\ codec' = [kind |-> "truncated TaskCreateInfo", value |-> info, tail |-> << >>,
                 bytes |-> bytes, result |-> TaskCreateInfo_deserialize(bytes)]
    /\ UNCHANGED <<dbVars, idAlloc, sig, waitCmd, abandoned, cli, scan>>

\* one blob is read
NextTruncated ==
    /\ codec = IdleCodec
    /\ \/ \E schedule \in CodecSchedules :
              \E bytes \in Prefixes(TaskSchedule_serialize(schedule)) :
                  TruncatedSchedule(schedule, bytes)
       \/ \E status \in CodecStatuses :
              \E bytes \in Prefixes(TaskStatus_serialize(status)) :
                  TruncatedStatus(status, bytes)
       \/ \E info \in CodecCreateInfos :
              \E bytes \in Prefixes(TaskCreateInfo_serialize(info)) :
                  TruncatedCreateInfo(info, bytes)

SpecTruncated == Init /\ [][NextTruncated]_vars

(***************************************************************************)
(* The worker command and its interrupt handler.  sig.frames is the stack  *)
(* of interruptHandler activations, each at the statement it runs next.    *)
(* signal() has one of two semantics: "bsd" keeps the handler installed    *)
(* and blocks the signal while the handler runs, "sysv" resets the         *)
(* disposition to the default on entry and blocks nothing.                 *)
(***************************************************************************)
SignalSemantics == {"bsd", "sysv"}

\* the process has not exited and has not been killed
Alive(s) == s.pc \in {"assigned", "run"} /\ s.exit = "none"

\* interruptHandler is entered: the test of gWorkerForInterruptHandler, and
\* the else-branch's exit(-2)
enterHandler(s) ==
    IF s.gWorker
    THEN [s EXCEPT !.frames = Append(@, "ignore"),
                   !.disposition = IF s.semantics = "sysv" THEN "dfl" ELSE @]
    ELSE [s EXCEPT !.exit = "-2"]

\* the kernel acts on a SIGINT by the disposition in force
deliver(s) ==
    CASE s.disposition = "dfl" -> [s EXCEPT !.exit = "signal"]
      [] s.disposition = "ign" -> [s EXCEPT !.ignored = @ + 1]
      [] OTHER -> enterHandler(s)

\* signal(sig, SIG_IGN): a blocked pending SIGINT is discarded with it
handlerIgnore(s) ==
    [s EXCEPT !.disposition = "ign",
              !.pending = FALSE,
              !.ignored = IF s.pending THEN @ + 1 ELSE @,
              !.frames = [@ EXCEPT ![Len(@)] = "shutdown"]]

\* gWorkerForInterruptHandler->shutdown()
handlerShutdown(s) ==
    [s EXCEPT !.shutdownCalls = @ + 1, !.frames = [@ EXCEPT ![Len(@)] = "clear"]]

\* the handler without the assignment of nullptr
handlerClear_keepsPointer(s) ==
    [s EXCEPT !.frames = [@ EXCEPT ![Len(@)] = "reinstall"]]

\* gWorkerForInterruptHandler = nullptr
handlerClear(s) ==
    [s EXCEPT !.gWorker = FALSE, !.frames = [@ EXCEPT ![Len(@)] = "reinstall"]]

\* signal(SIGINT, interruptHandler)
handlerReinstall(s) ==
    [s EXCEPT !.disposition = "handler", !.frames = [@ EXCEPT ![Len(@)] = "return"]]

\* the handler returns
handlerReturn(s) == [s EXCEPT !.frames = SubSeq(@, 1, Len(@) - 1)]

\* the statement the innermost activation of interruptHandler runs next
interruptHandler(s) ==
    CASE s.frames[Len(s.frames)] = "ignore"    -> handlerIgnore(s)
      [] s.frames[Len(s.frames)] = "shutdown"  -> handlerShutdown(s)
      [] s.frames[Len(s.frames)] = "clear"     -> handlerClear(s)
      [] s.frames[Len(s.frames)] = "reinstall" -> handlerReinstall(s)
      [] OTHER -> handlerReturn(s)

sigFrame == UNCHANGED <<dbVars, idAlloc, codec, waitCmd, abandoned, cli, scan>>

\* main: gWorkerForInterruptHandler = &worker
WorkerAssign(semantics) ==
    /\ sig.pc = "off"
    /\ sig' = [sig EXCEPT !.pc = "assigned", !.semantics = semantics, !.gWorker = TRUE]
    /\ sigFrame

\* main: signal(SIGINT, interruptHandler); worker.run() starts
WorkerInstall ==
    /\ sig.pc = "assigned" /\ sig.exit = "none"
    /\ sig' = [sig EXCEPT !.pc = "run", !.disposition = "handler"]
    /\ sigFrame

\* worker.run(): an idle worker that was not shut down is given a task
WorkerTakesTask ==
    /\ sig.pc = "run" /\ sig.exit = "none"
    /\ sig.frames = << >> /\ ~sig.pending
    /\ ~sig.executing /\ sig.shutdownCalls = 0
    /\ sig' = [sig EXCEPT !.executing = TRUE]
    /\ sigFrame

\* worker.run(): the task's subprocess exits
WorkerTaskDone ==
    /\ sig.pc = "run" /\ sig.exit = "none"
    /\ sig.frames = << >> /\ ~sig.pending
    /\ sig.executing
    /\ sig' = [sig EXCEPT !.executing = FALSE]
    /\ sigFrame

\* main: worker.run() returns once shutdown() was called and no task is
\* executing; return 0
WorkerReturn ==
    /\ sig.pc = "run" /\ sig.exit = "none"
    /\ sig.frames = << >> /\ ~sig.pending
    /\ sig.shutdownCalls >= 1 /\ ~sig.executing
    /\ sig' = [sig EXCEPT !.pc = "returned", !.exit = "0"]
    /\ sigFrame

\* the user presses Control-C
Interrupt ==
    /\ Alive(sig)
    /\ sig.interrupts < MaxInterrupts
    /\ LET s == [sig EXCEPT !.interrupts = @ + 1]
       IN sig' = IF s.disposition = "handler" /\ s.semantics = "bsd" /\ s.frames # << >>
                 THEN IF s.pending THEN [s EXCEPT !.ignored = @ + 1]
                      ELSE [s EXCEPT !.pending = TRUE]
                 ELSE deliver(s)
    /\ sigFrame

\* the handler runs its next statement
HandlerStep ==
    /\ sig.exit = "none"
    /\ sig.frames # << >>
    /\ sig' = interruptHandler(sig)
    /\ sigFrame

\* a SIGINT that was blocked while the handler ran is delivered
DeliverPending ==
    /\ sig.exit = "none"
    /\ sig.frames = << >>
    /\ sig.pending
    /\ sig' = deliver([sig EXCEPT !.pending = FALSE])
    /\ sigFrame

NextSig ==
    \/ \E semantics \in SignalSemantics : WorkerAssign(semantics)
    \/ WorkerInstall
    \/ WorkerTakesTask
    \/ WorkerTaskDone
    \/ WorkerReturn
    \/ Interrupt
    \/ HandlerStep
    \/ DeliverPending

SpecSig == Init /\ [][NextSig]_vars

(***************************************************************************)
(* The command line front end.  A string is a sequence of characters.  A   *)
(* finished run is [pc, command, server, arg, error, exit, requestSent].   *)
(***************************************************************************)
DEFAULT_TASK_SERVER_PORT == 3355

Strings(chars) == UNION { [1 .. n -> chars] : n \in 0 .. MaxArgLen }
\* values of -server, of a task id argument and of -port
ServerStrings == Strings({"h", ":", "1"})
TaskIDStrings == Strings({"a", "g", "1"})
PortStrings == Strings({"0", "1", "x"})

DigitValue == [c \in {"0", "1"} |-> IF c = "0" THEN 0 ELSE 1]
HexValue == [c \in {"0", "1", "a"} |-> IF c = "0" THEN 0 ELSE IF c = "1" THEN 1 ELSE 10]

\* splitString(str, ":"): the pieces between the separators; whether empty
\* pieces are kept is the library's choice
RECURSIVE splitLoop(_, _, _)
splitLoop(str, cur, parts) ==
    IF str = << >> THEN Append(parts, cur)
    ELSE IF Head(str) = ":" THEN splitLoop(Tail(str), << >>, Append(parts, cur))
    ELSE splitLoop(Tail(str), Append(cur, Head(str)), parts)

splitString(str, keepEmpty) ==
    IF keepEmpty THEN splitLoop(str, << >>, << >>)
    ELSE SelectSeq(splitLoop(str, << >>, << >>), LAMBDA piece : piece # << >>)

\* parseInt: the decimal value, 0 when the string is not a number
RECURSIVE decimal(_, _)
decimal(str, acc) ==
    IF str = << >> THEN acc ELSE decimal(Tail(str), 10 * acc + DigitValue[Head(str)])
parseInt(str) ==
    IF str # << >> /\ \A i \in 1 .. Len(str) : str[i] \in DOMAIN DigitValue
    THEN decimal(str, 0) ELSE 0

\* hexStringToUint64: the value, or Nothing when the string is not hexadecimal
RECURSIVE hexadecimal(_, _)
hexadecimal(str, acc) ==
    IF str = << >> THEN acc ELSE hexadecimal(Tail(str), 16 * acc + HexValue[Head(str)])
hexStringToUint64(str) ==
    IF str # << >> /\ \A i \in 1 .. Len(str) : str[i] \in DOMAIN HexValue
    THEN << hexadecimal(str, 0) >> ELSE Nothing

\* parseConnectionString: with more than two parts it prints and exits; with
\* no part it prints, does not exit and goes on to read parts[0]
parseConnectionString(connectionStr, defaultPort, keepEmpty) ==
    LET parts == splitString(connectionStr, keepEmpty)
    IN IF Len(parts) > 2
       THEN [error |-> TRUE, exited |-> TRUE, outOfRange |-> FALSE, ip |-> << >>, port |-> 0]
       ELSE IF Len(parts) < 1
       THEN [error |-> TRUE, exited |-> FALSE, outOfRange |-> TRUE, ip |-> << >>,
             port |-> defaultPort]
       ELSE [error |-> FALSE, exited |-> FALSE, outOfRange |-> FALSE, ip |-> parts[1],
             port |-> IF Len(parts) > 1 THEN parseInt(parts[2]) ELSE defaultPort]

\* the cancel, info and wait commands up to their first request: the
\* connection string is parsed, then the task id.  Reading parts[0] of an
\* empty vector crashes the process or lets it continue (outcome); the server
\* answers the request or not (reply).
clientCommand(command, server, arg, keepEmpty, outcome, reply) ==
    LET address == parseConnectionString(server, DEFAULT_TASK_SERVER_PORT, keepEmpty)
        taskID  == hexStringToUint64(arg)
        run     == [pc |-> "exited", command |-> command, server |-> server, arg |-> arg,
                    error |-> address.error, exit |-> "-1", requestSent |-> FALSE]
    IN IF address.exited THEN run
       ELSE IF address.outOfRange /\ outcome = "crash" THEN [run EXCEPT !.exit = "signal"]
       ELSE IF ~hasValue(taskID) THEN [run EXCEPT !.error = TRUE]
       ELSE IF reply = "ok" THEN [run EXCEPT !.exit = "0", !.requestSent = TRUE]
       ELSE [run EXCEPT !.error = TRUE, !.requestSent = TRUE]

\* the server command up to server.run()
serverCommand(portStr) ==
    LET port == parseInt(portStr)
        run  == [pc |-> "exited", command |-> "server", server |-> << >>, arg |-> portStr,
                 error |-> FALSE, exit |-> "0", requestSent |-> FALSE]
    IN IF port = 0 THEN [run EXCEPT !.error = TRUE, !.exit = "-1"]
       ELSE [run EXCEPT !.pc = "serving"]

RunClientCommand(command, server, arg, keepEmpty, outcome, reply) ==
    /\ cli.pc = "off"
    /\ cli' = clientCommand(command, server, arg, keepEmpty, outcome, reply)
    /\ UNCHANGED <<dbVars, idAlloc, codec, sig, waitCmd, abandoned, scan>>

RunServerCommand(portStr) ==
    /\ cli.pc = "off"
    /\ cli' = serverCommand(portStr)
    /\ UNCHANGED <<dbVars, idAlloc, codec, sig, waitCmd, abandoned, scan>>

\* one command is run
NextCli ==
    /\ cli.pc = "off"
    /\ \/ \E command \in {"cancel", "info", "wait"}, server \in ServerStrings,
             arg \in TaskIDStrings, keepEmpty \in BOOLEAN,
             outcome \in {"crash", "continue"}, reply \in {"ok", "failed"} :
                 RunClientCommand(command, server, arg, keepEmpty, outcome, reply)
       \/ \E portStr \in PortStrings : RunServerCommand(portStr)

SpecCli == Init /\ [][NextCli]_vars

(***************************************************************************)
(* The wait command.  waitCmd.i is the loop index (from 0, as in the code),*)
(* observed the ids that waitUntilTaskFinished saw absent, in order, and   *)
(* recreated the ids among them that a later createTask has used again.    *)
(***************************************************************************)
WaitArgs == UNION { [1 .. n -> TaskIDs] : n \in 0 .. MaxWaitIDs }

\* the for loop that stops one id early
waitLoopContinues_skipsLast(i, taskIDs) == i + 1 < Len(taskIDs)

\* the test of the for loop: i < taskIDs.size()
waitLoopContinues(i, taskIDs) == i < Len(taskIDs)

\* where the command stands when the loop test is made with index i
waitLoop(w, i) ==
    IF waitLoopContinues(i, w.taskIDs)
    THEN [w EXCEPT !.pc = "waiting", !.i = i]
    ELSE [w EXCEPT !.pc = "done", !.i = i]

\* one poll of waitUntilTaskFinished: getTaskStatus finds the task or not
taskIsAbsent(db, id) == getTaskByID(db, id) = NullTask

\* the command is started with its ids; without one it fails
WaitStart(taskIDs) ==
    /\ waitCmd.pc = "off"
    /\ waitCmd' = IF taskIDs = << >>
                  THEN [waitCmd EXCEPT !.pc = "failed"]
                  ELSE waitLoop([waitCmd EXCEPT !.taskIDs = taskIDs], 0)
    /\ last' = [NoCall EXCEPT !.op = "wait"]
    /\ UNCHANGED <<m_allTasksByID, m_pendingTasks, m_stats, now, finishCalls, dispatched>>
    /\ UNCHANGED <<idAlloc, codec, sig, abandoned, cli, scan>>

\* waitUntilTaskFinished(taskIDs[i]) polls once; when the task is absent it
\* returns and the loop goes on
WaitPoll ==
    /\ waitCmd.pc = "waiting"
    /\ LET taskID == waitCmd.taskIDs[waitCmd.i + 1]
       IN /\ waitCmd' = IF taskIsAbsent(DB, taskID)
                        THEN waitLoop([waitCmd EXCEPT !.observed = Append(@, taskID),
                                                      !.recreated = @ \ {taskID}],
                                      waitCmd.i + 1)
                        ELSE waitCmd
          /\ last' = [NoCall EXCEPT !.op = "waitUntilTaskFinished", !.task = taskID]
    /\ UNCHANGED <<m_allTasksByID, m_pendingTasks, m_stats, now, finishCalls, dispatched>>
    /\ UNCHANGED <<idAlloc, codec, sig, abandoned, cli, scan>>

\* clients and workers call the server while the command waits
WaitRequest ==
    /\ \/ \E id \in TaskIDs : CreateTask(id, "N")
       \/ \E order \in Orders(m_pendingTasks) : TakeTaskToRun({"CPU"}, order, 0)
       \/ \E task \in TaskIDs : MarkTaskFinished(task)
       \/ \E task \in TaskIDs : MarkTaskShouldCancel(task)
    /\ waitCmd' = [waitCmd EXCEPT !.recreated =
                       @ \cup ((DOMAIN m_allTasksByID' \ DOMAIN m_allTasksByID)
                               \cap Range(waitCmd.observed))]
    /\ UNCHANGED <<idAlloc, codec, sig, abandoned, cli, scan>>

NextWait ==
    \/ \E taskIDs \in WaitArgs : WaitStart(taskIDs)
    \/ WaitPoll
    \/ WaitRequest

SpecWait == Init /\ [][NextWait]_vars

(***************************************************************************)
(* Workers that die and the server's reaper timer.                         *)
(***************************************************************************)
\* the heartbeat timeout the server hands to cleanupZombieTasks
ReaperTimeout == 1

\* the workers' tasks after a step that is not the reaper's
StillAbandoned == [dead |-> abandoned.dead \cap DOMAIN m_allTasksByID', reaped |-> {}]

ReapTick ==
    /\ Tick
    /\ abandoned' = StillAbandoned
    /\ UNCHANGED <<idAlloc, codec, sig, waitCmd, cli, scan>>

\* a client or a living worker calls the server
ReapRequest ==
    /\ \/ /\ finishCalls + Cardinality(DOMAIN m_allTasksByID) < MaxReapCreated
          /\ \E id \in TaskIDs : CreateTask(id, "N")
       \/ \E order \in Orders(m_pendingTasks) : TakeTaskToRun({"CPU"}, order, 0)
       \/ \E task \in TaskIDs \ abandoned.dead : HeartbeatTask(task)
       \/ \E task \in TaskIDs \ abandoned.dead : MarkTaskFinished(task)
       \/ \E task \in TaskIDs : MarkTaskShouldCancel(task)
    /\ abandoned' = StillAbandoned
    /\ UNCHANGED <<idAlloc, codec, sig, waitCmd, cli, scan>>

\* the worker of a Running or Canceling task dies: no heartbeat and no
\* markTaskFinished for that task follows.  The clock is followed far enough
\* for the task's heartbeat to lapse.
WorkerDies(task) ==
    /\ task \in DOMAIN m_allTasksByID
    /\ task \notin abandoned.dead
    /\ hasValue(m_allTasksByID[task].status.runStatus)
    /\ m_allTasksByID[task].status.runStatus[1].heartbeatTime + ReaperTimeout <= MaxTime
    /\ abandoned' = [dead |-> abandoned.dead \cup {task}, reaped |-> {}]
    /\ last' = [NoCall EXCEPT !.op = "workerDies", !.task = task]
    /\ UNCHANGED <<m_allTasksByID, m_pendingTasks, m_stats, now, finishCalls, dispatched>>
    /\ UNCHANGED <<idAlloc, codec, sig, waitCmd, cli, scan>>

\* the server's timer fires: cleanupZombieTasks(ReaperTimeout)
ReapTimer ==
    /\ \E visit \in SUBSET TaskIDs : CleanupZombieTasks(ReaperTimeout, visit)
    /\ abandoned' = [dead   |-> abandoned.dead \cap DOMAIN m_allTasksByID',
                     reaped |-> abandoned.dead \ DOMAIN m_allTasksByID']
    /\ UNCHANGED <<idAlloc, codec, sig, waitCmd, cli, scan>>

NextReap ==
    \/ ReapTick
    \/ ReapRequest
    \/ \E task \in TaskIDs : WorkerDies(task)
    \/ ReapTimer

\* time advances and the server keeps running its reaper timer
SpecReap == Init /\ [][NextReap]_vars /\ WF_vars(ReapTick) /\ WF_vars(ReapTimer)

\* The full database with the clock running; tasks carry the schedules of
\* ClockSchedules and the workers that poll have the resources of ClockWorkers.
ClockSchedules == {"N", "G"}
ClockWorkers == { {"CPU"}, {"GPU", "X"} }

Next ==
    /\ \/ Tick
       \/ \E id \in TaskIDs, schedule \in ClockSchedules : CreateTask(id, schedule)
       \/ \E haveResources \in ClockWorkers, order \in Orders(m_pendingTasks), dt \in {0, 1} :
              TakeTaskToRun(haveResources, order, dt)
       \/ \E task \in TaskIDs : HeartbeatTask(task)
       \/ \E task \in TaskIDs : MarkTaskFinished(task)
       \/ \E task \in TaskIDs : MarkTaskShouldCancel(task)
       \/ \E heartbeatTimeoutSeconds \in Timeouts, visit \in SUBSET TaskIDs :
              CleanupZombieTasks(heartbeatTimeoutSeconds, visit)
    /\ UNCHANGED auxVars

Spec == Init /\ [][Next]_vars

\* The matching of takeTaskToRun on every schedule and worker, with the clock
\* standing still: creation, dispatch, completion and cancellation.
NextMatch ==
    /\ \/ \E id \in TaskIDs, schedule \in ScheduleNames : CreateTask(id, schedule)
       \/ \E haveResources \in WorkerResources, order \in Orders(m_pendingTasks) :
              TakeTaskToRun(haveResources, order, 0)
       \/ \E task \in TaskIDs : MarkTaskFinished(task)
       \/ \E task \in TaskIDs : MarkTaskShouldCancel(task)
    /\ UNCHANGED auxVars

SpecMatch == Init /\ [][NextMatch]_vars

\* The matching of takeTaskToRun with the iteration order of the pending set
\* kept: scan is the order in which the last call went through m_pendingTasks.
TakeTaskToRunInOrder(haveResources, order) ==
    /\ TakeTaskToRun(haveResources, order, 0)
    /\ scan' = order
    /\ UNCHANGED <<idAlloc, codec, sig, waitCmd, abandoned, cli>>

ScanRequest ==
    /\ \/ \E id \in TaskIDs, schedule \in ScheduleNames : CreateTask(id, schedule)
       \/ \E task \in TaskIDs : MarkTaskFinished(task)
       \/ \E task \in TaskIDs : MarkTaskShouldCancel(task)
    /\ UNCHANGED auxVars

NextScan ==
    \/ ScanRequest
    \/ \E haveResources \in WorkerResources, order \in Orders(m_pendingTasks) :
           TakeTaskToRunInOrder(haveResources, order)

SpecScan == Init /\ [][NextScan]_vars

\* Listing: the database without the clock, one schedule and one kind of
\* worker, and clients that list the tasks in any set of states.
NextList ==
    /\ \/ \E id \in TaskIDs : CreateTask(id, "N")
       \/ \E order \in Orders(m_pendingTasks) : TakeTaskToRun({"CPU"}, order, 0)
       \/ \E task \in TaskIDs : MarkTaskFinished(task)
       \/ \E task \in TaskIDs : MarkTaskShouldCancel(task)
       \/ \E states \in SUBSET TaskStates : GetTasksByStates(states)
    /\ UNCHANGED auxVars

SpecList == Init /\ [][NextList]_vars

\* Task creation with the id allocation loop spelled out; the server runs one
\* request at a time, so no other call starts while createTask is running.
NextAlloc ==
    \/ \E schedule \in ClockSchedules, sample \in TaskIDs : AllocStart(schedule, sample)
    \/ \E sample \in TaskIDs : AllocCollide(sample)
    \/ AllocReturn
    \/ /\ idAlloc.pc = "idle"
       /\ \/ \E order \in Orders(m_pendingTasks) : TakeTaskToRun({"CPU"}, order, 0)
          \/ \E task \in TaskIDs : MarkTaskFinished(task)
          \/ \E task \in TaskIDs : MarkTaskShouldCancel(task)
       /\ UNCHANGED auxVars

SpecAlloc == Init /\ [][NextAlloc]_vars

TypeOK ==
    /\ DOMAIN m_allTasksByID \subseteq TaskIDs
    /\ m_pendingTasks \subseteq TaskIDs
    /\ now \in 0 .. MaxTime

(***************************************************************************)
(* Properties                                                              *)
(***************************************************************************)
LiveTasks == DOMAIN m_allTasksByID
LiveInState(state) == { t \in LiveTasks : getState(m_allTasksByID[t].status) = state }
HasRunStatus(t) == hasValue(m_allTasksByID[t].status.runStatus)
WasCanceled(task) == hasValue(task.status.runStatus) /\ task.status.runStatus[1].wasCanceled

\* the schedule of a live task of the current state
ScheduleOf(t) == ScheduleTable[m_allTasksByID[t].schedule]
\* a pending task of the current state that a worker with resources r may run
Eligible(t, r) == t \in m_pendingTasks /\ matchReq(ScheduleOf(t), r)

\* C1: each of the three live counters equals the number of live tasks in
\* that derived state (Pending, Running, Canceling).
C1_CountersEqualLiveStates ==
    /\ m_stats.numPending = Cardinality(LiveInState("Pending"))
    /\ m_stats.numRunning = Cardinality(LiveInState("Running"))
    /\ m_stats.numCanceling = Cardinality(LiveInState("Canceling"))

\* C2: numPending is the size of the pending set, numRunning + numCanceling
\* is the number of tasks whose runStatus is present, and numFinished is
\* the number of markTaskFinished executions so far.
C2_CounterConsistency ==
    /\ m_stats.numPending = Cardinality(m_pendingTasks)
    /\ m_stats.numRunning + m_stats.numCanceling
           = Cardinality({ t \in LiveTasks : HasRunStatus(t) })
    /\ m_stats.numFinished = finishCalls

\* the reaper has just removed a task, an earlier task finished otherwise,
\* and a task is still live
C2_Witness ==
    /\ last.op = "cleanupZombieTasks"
    /\ finishCalls >= 2
    /\ LiveTasks # {}

\* C3: no task is returned by more than one takeTaskToRun call during its
\* lifetime.
C3_NeverDispatchedTwice ==
    \A t \in DOMAIN dispatched : dispatched[t] <= 1

\* a poll returned a task while another task, which that worker could also
\* have run, had already been dispatched and is still live
C3_Witness ==
    /\ last.op = "takeTaskToRun"
    /\ last.ret # NullTask
    /\ \E t \in LiveTasks \ {last.ret} :
           /\ dispatched[t] = 1
           /\ matchReq(ScheduleOf(t), last.have)

\* C4: a task returned by takeTaskToRun(R) has all its requiredResources in
\* R and a score at least that of every other eligible pending task.
C4_ReturnsHighestScore ==
    [][ (last'.op = "takeTaskToRun" /\ last'.ret # NullTask) =>
          /\ Eligible(last'.ret, last'.have)
          /\ \A u \in m_pendingTasks :
                Eligible(u, last'.have) =>
                    ~ScoreGreater(score(ScheduleOf(u), last'.have),
                                  score(ScheduleOf(last'.ret), last'.have)) ]_vars

\* C5: takeTaskToRun(R) returns nothing exactly when no pending task has
\* all its requiredResources in R, and then the task map, the pending set
\* and the counters are unchanged.
C5_NothingIffNoneEligible ==
    [][ last'.op = "takeTaskToRun" =>
          /\ (last'.ret = NullTask) <=> (~ \E t \in m_pendingTasks : Eligible(t, last'.have))
          /\ (last'.ret = NullTask) =>
                 UNCHANGED <<m_allTasksByID, m_pendingTasks, m_stats>> ]_vars

\* a worker without GPU polled, got nothing, and the task that requires GPU
\* is still pending
C5_Witness ==
    /\ last.op = "takeTaskToRun"
    /\ last.ret = NullTask
    /\ "GPU" \notin last.have
    /\ \E t \in m_pendingTasks : m_allTasksByID[t].schedule = "G"
    /\ m_stats.numPending >= 1

\* C6: when takeTaskToRun returns a task, the task is Running, out of the
\* pending set, still in the task map, numPending is one less, numRunning
\* one more, and numCanceling and numFinished are unchanged.
C6_ReturnedTaskIsRunning ==
    [][ (last'.op = "takeTaskToRun" /\ last'.ret # NullTask) =>
          /\ last'.ret \in DOMAIN m_allTasksByID'
          /\ getState(m_allTasksByID'[last'.ret].status) = "Running"
          /\ last'.ret \notin m_pendingTasks'
          /\ m_stats' = [m_stats EXCEPT !.numPending = @ - 1, !.numRunning = @ + 1] ]_vars

\* a poll has just returned a task
C6_Witness ==
    /\ last.op = "takeTaskToRun"
    /\ last.ret \in LiveTasks
    /\ getState(m_allTasksByID[last.ret].status) = "Running"

\* C7: once a live task's wasCanceled is true it stays true, and the task
\* stays Canceling, as long as the task is in the database.
C7_CancelIsMonotone ==
    [][ \A t \in DOMAIN m_allTasksByID \cap DOMAIN m_allTasksByID' :
            WasCanceled(m_allTasksByID[t]) => WasCanceled(m_allTasksByID'[t]) ]_vars

\* a Canceling task has just been heartbeated
C7_Witness ==
    /\ last.op = "heartbeatTask"
    /\ last.task \in LiveTasks
    /\ WasCanceled(m_allTasksByID[last.task])
    /\ m_allTasksByID[last.task].status.runStatus[1].heartbeatTime
           > m_allTasksByID[last.task].status.runStatus[1].startTime

\* C8: markTaskShouldCancel on a Running task makes it Canceling and keeps
\* it (numRunning -1, numCanceling +1); on a Pending task it removes the
\* task and counts it as finished (numPending -1, numFinished +1).
C8_CancelRunningOrPending ==
    [][ last'.op = "markTaskShouldCancel" =>
          LET t == last'.task
          IN /\ getState(m_allTasksByID[t].status) = "Running" =>
                   /\ t \in DOMAIN m_allTasksByID'
                   /\ getState(m_allTasksByID'[t].status) = "Canceling"
                   /\ m_pendingTasks' = m_pendingTasks
                   /\ m_stats' = [m_stats EXCEPT !.numRunning = @ - 1, !.numCanceling = @ + 1]
             /\ getState(m_allTasksByID[t].status) = "Pending" =>
                   /\ t \notin DOMAIN m_allTasksByID'
                   /\ t \notin m_pendingTasks'
                   /\ m_stats' = [m_stats EXCEPT !.numPending = @ - 1, !.numFinished = @ + 1] ]_vars

\* a Running task has just been cancelled, after a pending task was
\* cancelled and so finished
C8_Witness ==
    /\ last.op = "markTaskShouldCancel"
    /\ last.task \in LiveTasks
    /\ getState(m_allTasksByID[last.task].status) = "Canceling"
    /\ m_stats.numCanceling = 1
    /\ m_stats.numFinished >= 1

\* C9: one call cleanupZombieTasks(T) removes every task with a runStatus
\* whose now - heartbeatTime >= T, and numFinished grows by their number.
C9_ReapsEveryZombie ==
    [][ last'.op = "cleanupZombieTasks" =>
          LET zombies == { t \in DOMAIN m_allTasksByID :
                             died(m_allTasksByID[t], last'.timeout, now) }
          IN /\ zombies \cap DOMAIN m_allTasksByID' = {}
             /\ m_stats'.numFinished = m_stats.numFinished + Cardinality(zombies) ]_vars

\* C10: heartbeatTime >= startTime for every live task with a runStatus.
C10_HeartbeatNotBeforeStart ==
    \A t \in LiveTasks :
        HasRunStatus(t) =>
            m_allTasksByID[t].status.runStatus[1].heartbeatTime
                >= m_allTasksByID[t].status.runStatus[1].startTime

\* a task dispatched earlier has just been heartbeated at a later time
C10_Witness ==
    /\ last.op = "heartbeatTask"
    /\ last.task \in LiveTasks
    /\ HasRunStatus(last.task)
    /\ m_allTasksByID[last.task].status.runStatus[1].heartbeatTime = now
    /\ m_allTasksByID[last.task].status.runStatus[1].startTime < now

\* C11: a live task is in the pending set exactly when its runStatus is
\* absent, and every member of the pending set is a live task.
C11_PendingIffNoRunStatus ==
    /\ m_pendingTasks \subseteq LiveTasks
    /\ \A t \in LiveTasks : (t \in m_pendingTasks) <=> ~HasRunStatus(t)

\* one task is pending while another has been dispatched and a third has
\* left the database
C11_Witness ==
    /\ m_pendingTasks # {}
    /\ \E t \in LiveTasks : HasRunStatus(t)
    /\ finishCalls >= 1

\* the task, map, pending set and counters that heartbeatTask must leave alone
HeartbeatFrame(t) ==
    /\ m_pendingTasks' = m_pendingTasks
    /\ m_stats' = m_stats
    /\ DOMAIN m_allTasksByID' = DOMAIN m_allTasksByID
    /\ \A u \in DOMAIN m_allTasksByID \ {t} : m_allTasksByID'[u] = m_allTasksByID[u]

\* C12 as stated: heartbeatTask sets heartbeatTime to the current time only
\* for a Running task; on a Pending or Canceling task it changes nothing.
C12_HeartbeatOnlyWhenRunning ==
    [][ last'.op = "heartbeatTask" =>
          LET t == last'.task
          IN /\ HeartbeatFrame(t)
             /\ getState(m_allTasksByID[t].status) = "Running" =>
                   m_allTasksByID'[t] =
                       [m_allTasksByID[t] EXCEPT !.status.runStatus[1].heartbeatTime = now]
             /\ getState(m_allTasksByID[t].status) # "Running" =>
                   m_allTasksByID'[t] = m_allTasksByID[t] ]_vars

\* C12 amended: heartbeatTask sets heartbeatTime to the current time for a
\* task whose runStatus is present (Running or Canceling) and changes
\* nothing else; on a Pending task it changes nothing.
C12_HeartbeatWhenDispatched ==
    [][ last'.op = "heartbeatTask" =>
          LET t == last'.task
          IN /\ HeartbeatFrame(t)
             /\ HasRunStatus(t) =>
                   m_allTasksByID'[t] =
                       [m_allTasksByID[t] EXCEPT !.status.runStatus[1].heartbeatTime = now]
             /\ ~HasRunStatus(t) =>
                   m_allTasksByID'[t] = m_allTasksByID[t] ]_vars

\* a Canceling task has just been heartbeated at a later time than its
\* dispatch, while another task is pending
C12_Witness ==
    /\ last.op = "heartbeatTask"
    /\ last.task \in LiveTasks
    /\ getState(m_allTasksByID[last.task].status) = "Canceling"
    /\ m_allTasksByID[last.task].status.runStatus[1].heartbeatTime = now
    /\ m_allTasksByID[last.task].status.runStatus[1].startTime < now
    /\ m_pendingTasks # {}

\* the order of the derived states along a task's life
StateRank(state) ==
    CASE state = "Pending" -> 1 [] state = "Running" -> 2 [] state = "Canceling" -> 3

\* C17: a live task only moves Pending -> Running -> Canceling, never
\* back; a task enters the task map or the pending set only as the new
\* Pending task of a createTask call, so a removed task does not reappear.
C17_LifecycleForward ==
    [][ /\ \A t \in DOMAIN m_allTasksByID \cap DOMAIN m_allTasksByID' :
              LET before == getState(m_allTasksByID[t].status)
                  after  == getState(m_allTasksByID'[t].status)
              IN /\ StateRank(before) <= StateRank(after)
                 /\ (before = "Pending" /\ after # "Pending") => after = "Running"
        /\ \A t \in TaskIDs :
              (\/ t \notin DOMAIN m_allTasksByID /\ t \in DOMAIN m_allTasksByID'
               \/ t \notin m_pendingTasks /\ t \in m_pendingTasks') =>
                  /\ last'.op = "createTask" /\ last'.ret = t
                  /\ t \notin DOMAIN m_allTasksByID
                  /\ getState(m_allTasksByID'[t].status) = "Pending"
                  /\ dispatched'[t] = 0 ]_vars

\* a task went all the way to Canceling, another one finished, and a new
\* task has just been created
C17_Witness ==
    /\ last.op = "createTask"
    /\ finishCalls >= 1
    /\ \E t \in LiveTasks : getState(m_allTasksByID[t].status) = "Canceling" /\ dispatched[t] = 1

C14_GivesUpAfter1000 ==
    /\ idAlloc.sanityCount > WarnAfter => idAlloc.warnings >= 1
    /\ idAlloc.sanityCount > GiveUpAfter => idAlloc.pc = "failed"

\* C15: createTask adds exactly one new Pending task under an id no live
\* task had; numPending grows by one, the other counters, every other
\* task and the pending-set membership of every other task are unchanged.
C15_CreateAddsOneFreshTask ==
    [][ last'.op = "createTask" =>
          LET id == last'.ret
          IN /\ id \notin DOMAIN m_allTasksByID
             /\ DOMAIN m_allTasksByID' = DOMAIN m_allTasksByID \cup {id}
             /\ m_allTasksByID'[id].id = id
             /\ getState(m_allTasksByID'[id].status) = "Pending"
             /\ \A u \in DOMAIN m_allTasksByID : m_allTasksByID'[u] = m_allTasksByID[u]
             /\ m_pendingTasks' = m_pendingTasks \cup {id}
             /\ id \notin m_pendingTasks
             /\ m_stats' = [m_stats EXCEPT !.numPending = @ + 1] ]_vars

\* a task has just been created, after a colliding sample, next to a task
\* that had already been dispatched
C15_Witness ==
    /\ last.op = "createTask"
    /\ last.ret \in m_pendingTasks
    /\ \E u \in LiveTasks \ {last.ret} : HasRunStatus(u)
    /\ m_stats.numPending = 1

\* C16: for every TaskSchedule, TaskStatus (with and without runStatus) and
\* TaskCreateInfo, deserializing the serialized bytes succeeds, yields the
\* original value and consumes exactly the bytes written.
C16_SerializationRoundTrip ==
    codec.kind # "none" =>
        /\ codec.result.ok
        /\ codec.result.value = codec.value
        /\ codec.result.rest = codec.tail

\* a status with a run status whose times differ in length, followed by
\* another byte in the stream, has been written and read back
C16_Witness ==
    /\ codec.kind = "TaskStatus"
    /\ hasValue(codec.value.runStatus)
    /\ codec.value.runStatus[1].startTime = 300
    /\ codec.value.runStatus[1].heartbeatTime = 70000
    /\ codec.tail # << >>
    /\ Len(codec.bytes) = 26
    /\ codec.result.ok

\* C18: a Running or Canceling task whose worker died is eventually removed
\* by the reaper, with no client or worker request needed; the step that
\* removes it is a cleanupZombieTasks call that adds to numFinished one for
\* each task it removes.
C18_ZombieEventuallyReaped ==
    /\ \A t \in TaskIDs : (t \in abandoned.dead) ~> (t \in abandoned.reaped)
    /\ [][\A t \in abandoned.dead \ abandoned'.dead :
              /\ last'.op = "cleanupZombieTasks"
              /\ t \notin DOMAIN m_allTasksByID'
              /\ m_stats'.numFinished = m_stats.numFinished
                     + Cardinality(DOMAIN m_allTasksByID \ DOMAIN m_allTasksByID')]_vars

\* the reaper has just removed a task whose worker had died
C18_Witness ==
    /\ last.op = "cleanupZombieTasks"
    /\ abandoned.reaped # {}
    /\ abandoned.reaped \cap DOMAIN m_allTasksByID = {}
    /\ m_stats.numFinished >= 1

C20_WaitDoneAfterAllAbsent ==
    /\ waitCmd.pc = "done" =>
           /\ Len(waitCmd.taskIDs) >= 1
           /\ waitCmd.observed = waitCmd.taskIDs
    /\ waitCmd.pc \in {"waiting", "done"} =>
           /\ waitCmd.observed = SubSeq(waitCmd.taskIDs, 1, waitCmd.i)
           /\ \A id \in Range(waitCmd.observed) :
                  id \in DOMAIN m_allTasksByID => id \in waitCmd.recreated
    /\ (waitCmd.pc # "off" /\ waitCmd.taskIDs = << >>) => waitCmd.pc = "failed"

\* the command is done after waiting for two different tasks that were live
\* when it started polling them
C20_Witness ==
    /\ waitCmd.pc = "done"
    /\ Len(waitCmd.taskIDs) = 2
    /\ waitCmd.taskIDs[1] # waitCmd.taskIDs[2]
    /\ m_stats.numFinished >= 2
    /\ waitCmd.recreated = {}
    /\ last.op = "waitUntilTaskFinished"

\* the colons of a string, and the part before its first colon
Colons(str) == Cardinality({ i \in 1 .. Len(str) : str[i] = ":" })
HostPart(str) ==
    IF Colons(str) = 0 THEN str
    ELSE SubSeq(str, 1, (CHOOSE i \in 1 .. Len(str) :
                            str[i] = ":" /\ \A j \in 1 .. i - 1 : str[j] # ":") - 1)

\* the input of the finished run is malformed in one of the four ways
MalformedInput ==
    IF cli.command = "server" THEN parseInt(cli.arg) = 0
    ELSE \/ Colons(cli.server) > 1
         \/ HostPart(cli.server) = << >>
         \/ ~hasValue(hexStringToUint64(cli.arg))

\* C21: every malformed command line (more than one colon or no host part
\* in -server, an unparseable task id, an unparseable or zero -port) is
\* reported with an error and ends with exit code -1 before a request is sent.
C21_MalformedInputExitsMinusOne ==
    (cli.pc # "off" /\ MalformedInput) =>
        /\ cli.error
        /\ cli.exit = "-1"
        /\ ~cli.requestSent
        /\ cli.pc = "exited"

\* positions of a scan order whose task is eligible for a worker with
\* resources r, and the score found there
EligibleAt(order, r) == { i \in 1 .. Len(order) : Eligible(order[i], r) }
ScoreAt(order, i, r) == ScoreTable[m_allTasksByID[order[i]].schedule][r]

\* C22: takeTaskToRun returns the first task in the pending set's iteration
\* order among the eligible tasks with the highest score, and when an
\* eligible task has a score >= 0.999 it returns the first such task of the
\* iteration order.
C22_FirstOfHighestAndEarlyStop ==
    [][ (last'.op = "takeTaskToRun" /\ last'.ret # NullTask) =>
          LET r        == last'.have
              eligible == EligibleAt(scan', r)
              highest  == { i \in eligible : \A j \in eligible :
                                ~ScoreGreater(ScoreAt(scan', j, r), ScoreAt(scan', i, r)) }
              enough   == { i \in eligible : ScoreAtLeastThreshold(ScoreAt(scan', i, r)) }
          IN /\ last'.ret = scan'[Min(highest)]
             /\ enough # {} => last'.ret = scan'[Min(enough)] ]_vars

\* the counter of the live tasks in a state
CounterOf(state) ==
    CASE state = "Pending" -> "numPending"
      [] state = "Running" -> "numRunning"
      [] state = "Canceling" -> "numCanceling"

\* C23: markTaskFinished on a live task removes exactly that task from the
\* task map and the pending set, decrements the one live counter of the
\* task's state, increments numFinished by one and leaves every other task
\* and counter as it was.
C23_FinishRemovesOneTask ==
    [][ last'.op = "markTaskFinished" =>
          LET t       == last'.task
              counter == CounterOf(getState(m_allTasksByID[t].status))
          IN /\ t \in DOMAIN m_allTasksByID
             /\ DOMAIN m_allTasksByID' = DOMAIN m_allTasksByID \ {t}
             /\ m_pendingTasks' = m_pendingTasks \ {t}
             /\ \A u \in DOMAIN m_allTasksByID' : m_allTasksByID'[u] = m_allTasksByID[u]
             /\ m_stats'.numFinished = m_stats.numFinished + 1
             /\ m_stats'[counter] = m_stats[counter] - 1
             /\ \A c \in {"numPending", "numRunning", "numCanceling"} \ {counter} :
                    m_stats'[c] = m_stats[c] ]_vars

\* the first task to finish has just been removed by markTaskFinished while
\* another, Running task and its counter stay
C23_Witness ==
    /\ last.op = "markTaskFinished"
    /\ last.task \notin DOMAIN m_allTasksByID
    /\ m_stats.numFinished = 1
    /\ finishCalls = 1
    /\ m_stats.numCanceling = 0
    /\ m_stats.numRunning = 1
    /\ \E u \in LiveTasks : getState(m_allTasksByID[u].status) = "Running"
    /\ dispatched # << >>

\* C24: markTaskShouldCancel on a task that is already Canceling leaves the
\* task's status and the four counters as they were.
C24_CancelIsIdempotent ==
    [][ (/\ last'.op = "markTaskShouldCancel"
         /\ last'.task \in DOMAIN m_allTasksByID
         /\ getState(m_allTasksByID[last'.task].status) = "Canceling") =>
            /\ last'.task \in DOMAIN m_allTasksByID'
            /\ m_allTasksByID'[last'.task].status = m_allTasksByID[last'.task].status
            /\ m_stats' = m_stats ]_vars

\* a live task of the current state that is Pending, or whose last heartbeat
\* is less than T seconds old
Spared(t, T) ==
    \/ ~HasRunStatus(t)
    \/ now - m_allTasksByID[t].status.runStatus[1].heartbeatTime < T

\* C25: cleanupZombieTasks(T) removes no Pending task and no Running or
\* Canceling task whose last heartbeat is less than T seconds old: each such
\* task stays in the map (and in the pending set if it was there) with its
\* status unchanged, numPending is unchanged, and numRunning and numCanceling
\* go down only by the tasks of that state that were removed.
C25_ReaperSparesLiveTasks ==
    [][ last'.op = "cleanupZombieTasks" =>
          LET removed == DOMAIN m_allTasksByID \ DOMAIN m_allTasksByID'
          IN /\ \A t \in LiveTasks :
                    Spared(t, last'.timeout) =>
                        /\ t \in DOMAIN m_allTasksByID'
                        /\ m_allTasksByID'[t] = m_allTasksByID[t]
                        /\ (t \in m_pendingTasks') <=> (t \in m_pendingTasks)
             /\ m_stats'.numPending = m_stats.numPending
             /\ m_stats'.numRunning = m_stats.numRunning
                    - Cardinality(removed \cap LiveInState("Running"))
             /\ m_stats'.numCanceling = m_stats.numCanceling
                    - Cardinality(removed \cap LiveInState("Canceling")) ]_vars

\* after a cleanupZombieTasks(T) call a Pending task created at least T
\* seconds ago and a Running task that was dispatched at least T seconds ago
\* but heartbeated since are both still there
C25_Witness ==
    /\ last.op = "cleanupZombieTasks"
    /\ \E t \in m_pendingTasks :
           /\ ~HasRunStatus(t)
           /\ now - m_allTasksByID[t].status.createTime >= last.timeout
    /\ \E t \in LiveTasks :
           /\ HasRunStatus(t)
           /\ now - m_allTasksByID[t].status.runStatus[1].startTime >= last.timeout
           /\ now - m_allTasksByID[t].status.runStatus[1].heartbeatTime < last.timeout

\* C26: deserializing a strict prefix of the encoding of a TaskSchedule, a
\* TaskStatus or a TaskCreateInfo reports failure.
C26_TruncatedInputFails ==
    codec.kind \in {"truncated TaskSchedule", "truncated TaskStatus", "truncated TaskCreateInfo"} =>
        /\ Len(codec.bytes) < Len(CASE codec.kind = "truncated TaskSchedule" ->
                                           TaskSchedule_serialize(codec.value)
                                    [] codec.kind = "truncated TaskStatus" ->
                                           TaskStatus_serialize(codec.value)
                                    [] OTHER -> TaskCreateInfo_serialize(codec.value))
        /\ ~codec.result.ok

\* a create-info whose command was read whole and whose schedule is cut in
\* the last string has been refused
C26_Witness ==
    /\ codec.kind = "truncated TaskCreateInfo"
    /\ codec.value.command # << >>
    /\ Len(codec.value.schedule.optionalResources) = 2
    /\ Len(codec.bytes) = Len(TaskCreateInfo_serialize(codec.value)) - 1
    /\ readString(codec.bytes).ok
    /\ ~codec.result.ok

=============================================================================
